---------------------------- MODULE Spec2Model ----------------------------
(***************************************************************************)
(* A state-machine model of eduauth: registration, e-mail verification,    *)
(* login, password reset and the role guards, over a document store.       *)
(*                                                                         *)
(* Every request handler is a sequence of steps, one per store access      *)
(* (each `await users_collection...`), so that concurrent requests         *)
(* interleave exactly where the event loop may switch between them.  The   *)
(* step that performs a store access also runs the handler code that       *)
(* leads up to it and, for the last access, the code that builds the       *)
(* response.                                                               *)
(*                                                                         *)
(* Names the source uses without importing them (timedelta in routes.py,   *)
(* ObjectId in verify_email.py and reset_password.py, Any / Optional /     *)
(* Literal in annotations) are read as the standard objects of those       *)
(* names.  The plumbing between the framework and the handlers (the        *)
(* database dependency that main.py provides, the Depends chains and the   *)
(* wrappers of decorators.py) is read as handing each handler its store    *)
(* and each protected route the principal of its guard.                    *)
(***************************************************************************)
EXTENDS Integers, Sequences, FiniteSets, TLC

(***************************************************************************)
(* Bounds of the model.                                                    *)
(***************************************************************************)
MaxUsers == 2
MaxTokens == 3
MaxInFlight == 2
MaxTicks == 1
MaxSalt == 1

(***************************************************************************)
(* Program constants (config.py, models.py).                               *)
(***************************************************************************)
ACCESS_TOKEN_EXPIRE_MINUTES == 30
PASSWORD_RESET_TOKEN_EXPIRE_MINUTES == 60
EMAIL_VERIFICATION_TOKEN_EXPIRE_MINUTES == 1440
MinPasswordLength == 8
None == 0

JWT_SECRET_KEY == "your_super_secret_jwt_key_please_change_this_in_production"

STUDENT == "student"
TEACHER == "teacher"
ADMIN == "admin"
UserRole == {STUDENT, TEACHER, ADMIN}

ACTIVE == "active"
INACTIVE == "inactive"
PENDING_VERIFICATION == "pending_verification"
UserStatus == {ACTIVE, INACTIVE, PENDING_VERIFICATION}

(***************************************************************************)
(* Inputs the requests are drawn from.                                     *)
(***************************************************************************)
Emails == {"a@x.com", "b@x.com"}
PasswordA == <<"p", "a", "s", "s", "w", "o", "r", "d">>
PasswordB == <<"l", "e", "t", "m", "e", "i", "n", "1">>
Passwords == {PasswordA, PasswordB}
\* a request body that leaves the role out
Unset == ""
RegisterRoles == {Unset, STUDENT, ADMIN}
FullName == "A"
Salts == 1..MaxSalt
Slots == 1..MaxInFlight
TickSteps == {PASSWORD_RESET_TOKEN_EXPIRE_MINUTES, EMAIL_VERIFICATION_TOKEN_EXPIRE_MINUTES}
ForgedToken == MaxTokens + 1
RaceEmails == {"a@x.com"}
RaceRoles == {STUDENT}
RaceTickSteps == {PASSWORD_RESET_TOKEN_EXPIRE_MINUTES}

VARIABLES idRepr, users, now, ticks, nextTok, reqs, consumed, reused, bearer

vars == <<idRepr, users, now, ticks, nextTok, reqs, consumed, reused, bearer>>

(***************************************************************************)
(* Document ids.  PyObjectId is declared as str with a BeforeValidator     *)
(* (models.py), while UserModel.id defaults to ObjectId() (db_models.py):  *)
(* the value that reaches the store as _id is an ObjectId or its string,   *)
(* and a store filter on _id matches only a value of the same type.        *)
(***************************************************************************)
IdReprs == {"oid", "str"}
NoId == [repr |-> "none", n |-> 0]
StoredId(n) == [repr |-> idRepr, n |-> n]
PyObjectId(id) == [repr |-> "str", n |-> id.n]
ObjectId(id) == [repr |-> "oid", n |-> id.n]
json_encoders_ObjectId(id) == PyObjectId(id)

(***************************************************************************)
(* Password digests.  A bcrypt digest carries the "$2b$" identifier, its   *)
(* salt and the salted key of the password, none of which is readable      *)
(* text of the password; the placeholder of reset_password.py is the       *)
(* readable text "hashed_" followed by the password.                       *)
(***************************************************************************)
HashedPrefix == <<"h", "a", "s", "h", "e", "d", "_">>

hash_password(password, salt) ==
    [ident |-> "$2b$", salt |-> salt, key |-> password, text |-> <<>>]

hash_password_placeholder(password) ==
    [ident |-> "", salt |-> 0, key |-> <<>>, text |-> HashedPrefix \o password]

\* pwd_context.verify: "raise" is passlib's UnknownHashError for a value
\* that is no digest of a configured scheme.
verify_password(plain_password, hashed_password) ==
    IF hashed_password.ident = "$2b$"
    THEN IF hash_password(plain_password, hashed_password.salt).key = hashed_password.key
         THEN "true" ELSE "false"
    ELSE "raise"

\* the text `needle` occurs in the text `hay`
Contains(hay, needle) ==
    \E i \in 1..(Len(hay) - Len(needle) + 1) :
        SubSeq(hay, i, i + Len(needle) - 1) = needle

(***************************************************************************)
(* The users collection: documents in insertion order.                     *)
(***************************************************************************)
\* variant: the new account is stored already verified and active
UserModel_verified(id, email, hashed_password, role, token, expires_at, t) ==
    [_id |-> id,
     email |-> email,
     hashed_password |-> hashed_password,
     full_name |-> FullName,
     role |-> role,
     status |-> ACTIVE,
     is_verified |-> TRUE,
     verification_token |-> token,
     verification_token_expires_at |-> expires_at,
     reset_password_token |-> None,
     reset_password_token_expires_at |-> None,
     updated_at |-> t]

UserModel(id, email, hashed_password, role, token, expires_at, t) ==
    [_id |-> id,
     email |-> email,
     hashed_password |-> hashed_password,
     full_name |-> FullName,
     role |-> role,
     status |-> PENDING_VERIFICATION,
     is_verified |-> FALSE,
     verification_token |-> token,
     verification_token_expires_at |-> expires_at,
     reset_password_token |-> None,
     reset_password_token_expires_at |-> None,
     updated_at |-> t]

NoBody == [none |-> TRUE]

\* variant: the view is the stored document, digest and tokens included
UserResponse_whole_document(doc) ==
    [id |-> PyObjectId(doc._id),
     email |-> doc.email,
     full_name |-> doc.full_name,
     role |-> doc.role,
     status |-> doc.status,
     is_verified |-> doc.is_verified,
     hashed_password |-> doc.hashed_password,
     verification_token |-> doc.verification_token,
     verification_token_expires_at |-> doc.verification_token_expires_at,
     reset_password_token |-> doc.reset_password_token,
     reset_password_token_expires_at |-> doc.reset_password_token_expires_at]

UserResponse(doc) ==
    [id |-> PyObjectId(doc._id),
     email |-> doc.email,
     full_name |-> doc.full_name,
     role |-> doc.role,
     status |-> doc.status,
     is_verified |-> doc.is_verified]

Matching(coll, P(_)) == {i \in 1..Len(coll) : P(coll[i])}

\* find_one: the first matching document's position, 0 when none matches
find_one(coll, P(_)) ==
    IF Matching(coll, P) = {} THEN 0
    ELSE CHOOSE i \in Matching(coll, P) : \A j \in Matching(coll, P) : i <= j

\* update_one: applies the $set to the first matching document
update_one(coll, P(_), Set(_)) ==
    LET i == find_one(coll, P)
    IN IF i = 0 THEN coll ELSE [coll EXCEPT ![i] = Set(coll[i])]

modified_count(coll, P(_)) == IF find_one(coll, P) = 0 THEN 0 ELSE 1

(***************************************************************************)
(* Access tokens (jwt_handler.py).                                         *)
(***************************************************************************)
NoAccess == [none |-> TRUE]

\* jwt.encode: the payload (the claims given and exp) signed with the key
create_access_token(data, t) ==
    [id |-> IF "id" \in DOMAIN data THEN data.id ELSE NoId,
     email |-> IF "email" \in DOMAIN data THEN data.email ELSE "",
     role |-> IF "role" \in DOMAIN data THEN data.role ELSE "",
     claims |-> DOMAIN data,
     exp |-> t + ACCESS_TOKEN_EXPIRE_MINUTES, key |-> JWT_SECRET_KEY]

(***************************************************************************)
(* Responses.                                                              *)
(***************************************************************************)
NoResp == [status |-> 0, detail |-> "", body |-> NoBody, access_token |-> NoAccess]
HTTPException(status, detail) ==
    [status |-> status, detail |-> detail, body |-> NoBody, access_token |-> NoAccess]
Json(status, detail) ==
    [status |-> status, detail |-> detail, body |-> NoBody, access_token |-> NoAccess]
UserJson(status, doc) ==
    [status |-> status, detail |-> "", body |-> UserResponse(doc), access_token |-> NoAccess]
TokenJson(token) ==
    [status |-> 200, detail |-> "bearer", body |-> NoBody, access_token |-> token]
InternalServerError == HTTPException(500, "Internal Server Error")

(***************************************************************************)
(* Requests in flight.  A request that has built its response is "done"    *)
(* and the response is sent before anything else happens.  consumed and    *)
(* reused record, per operation, the tokens a request has succeeded with   *)
(* once and more than once.  A request whose handler scheduled an e-mail   *)
(* runs that background task after its response is sent.  bearer is the    *)
(* access token the client holds: the one of its latest successful login.  *)
(***************************************************************************)
Idle ==
    [op |-> "none", pc |-> "idle", email |-> "", password |-> <<>>, role |-> "",
     token |-> None, doc_id |-> NoId, late |-> FALSE, access |-> NoAccess,
     task |-> "none", resp |-> NoResp]

Quiet == \A s \in Slots : reqs[s].pc # "done"

\* a new request takes the first idle slot
Free(s) == Quiet /\ reqs[s].pc = "idle" /\ \A j \in Slots : j < s => reqs[j].pc # "idle"

At(s, op, pc) == Quiet /\ reqs[s].op = op /\ reqs[s].pc = pc

Request(op, pc) == [Idle EXCEPT !.op = op, !.pc = pc]

Done(r, resp) == [r EXCEPT !.pc = "done", !.resp = resp]

Respond(s, r, resp) == reqs' = [reqs EXCEPT ![s] = Done(r, resp)]

Continue(s, r) == reqs' = [reqs EXCEPT ![s] = r]

Consume(op, token) ==
    /\ consumed' = consumed \cup {<<op, token>>}
    /\ reused' = IF <<op, token>> \in consumed THEN reused \cup {<<op, token>>} ELSE reused

Init ==
    /\ idRepr \in IdReprs
    /\ users = <<>>
    /\ now = 0
    /\ ticks = 0
    /\ nextTok = 0
    /\ reqs = [s \in Slots |-> Idle]
    /\ consumed = {}
    /\ reused = {}
    /\ bearer = NoAccess

send_response(s) ==
    /\ reqs[s].pc = "done"
    /\ reqs' = [reqs EXCEPT ![s] = IF reqs[s].task = "none" THEN Idle
                                   ELSE [reqs[s] EXCEPT !.pc = "task"]]
    /\ bearer' = IF reqs[s].resp.access_token # NoAccess
                 THEN reqs[s].resp.access_token ELSE bearer
    /\ UNCHANGED <<idRepr, users, now, ticks, nextTok, consumed, reused>>

Tick(d) ==
    /\ Quiet
    /\ ticks < MaxTicks
    /\ now' = now + d
    /\ ticks' = ticks + 1
    /\ UNCHANGED <<idRepr, users, nextTok, reqs, consumed, reused, bearer>>

\* requests that will still generate a token / insert a document
Generating == {s \in Slots : reqs[s].pc \in {"insert", "store"}}
Inserting == {s \in Slots : reqs[s].pc = "insert"}
TokenInputs == (1..nextTok) \cup {ForgedToken}

(***************************************************************************)
(* POST /auth/register                                                     *)
(***************************************************************************)
\* UserCreate.role: Optional[UserRole] = Field(UserRole.STUDENT)
UserCreate_role(role) == IF role = Unset THEN STUDENT ELSE role

\* variant: the e-mail address is not looked up before the insert
register_user_find_no_conflict(s, email, password, role) ==
    /\ Free(s)
    /\ Len(password) >= MinPasswordLength
    /\ Len(users) + Cardinality(Inserting) < MaxUsers
    /\ nextTok + Cardinality(Generating) < MaxTokens
    /\ Continue(s, [Request("register", "insert") EXCEPT
                       !.email = email, !.password = password, !.role = role])
    /\ UNCHANGED <<idRepr, users, now, ticks, nextTok, consumed, reused, bearer>>

register_user_find(s, email, password, role) ==
    /\ Free(s)
    /\ Len(password) >= MinPasswordLength
    /\ Len(users) + Cardinality(Inserting) < MaxUsers
    /\ nextTok + Cardinality(Generating) < MaxTokens
    /\ LET r == [Request("register", "insert") EXCEPT
                    !.email = email, !.password = password, !.role = role]
           existing_user == find_one(users, LAMBDA d : d.email = email)
       IN IF existing_user # 0
          THEN Respond(s, r, HTTPException(409, "Email already registered."))
          ELSE Continue(s, r)
    /\ UNCHANGED <<idRepr, users, now, ticks, nextTok, consumed, reused, bearer>>

register_user_insert(s, salt) ==
    /\ At(s, "register", "insert")
    /\ LET r == reqs[s]
           verification_token == nextTok + 1
           expires_at == now + EMAIL_VERIFICATION_TOKEN_EXPIRE_MINUTES
           new_user_data == UserModel(StoredId(Len(users) + 1), r.email,
                                      hash_password(r.password, salt),
                                      UserCreate_role(r.role),
                                      verification_token, expires_at, now)
       IN /\ users' = Append(users, new_user_data)
          /\ nextTok' = verification_token
          \* the request's token is the one handed to send_verification_email
          /\ Respond(s, [r EXCEPT !.token = verification_token, !.task = "verification"],
                     UserJson(201, new_user_data))
    /\ UNCHANGED <<idRepr, now, ticks, consumed, reused, bearer>>

(***************************************************************************)
(* GET /auth/verify-email                                                  *)
(***************************************************************************)
\* variant: a stored token that has expired is answered with its own detail
verify_user_email_find_tells_expiry(s, token) ==
    /\ Free(s)
    /\ LET r == [Request("verify_email", "update") EXCEPT
                    !.token = token, !.late = (<<"verify_email", token>> \in consumed)]
           stored == find_one(users, LAMBDA d : d.verification_token = token)
           user == find_one(users, LAMBDA d :
                       /\ d.verification_token = token
                       /\ d.verification_token_expires_at # None
                       /\ d.verification_token_expires_at > now)
       IN IF user # 0
          THEN Continue(s, [r EXCEPT !.doc_id = users[user]._id])
          ELSE IF stored # 0
          THEN Respond(s, r, HTTPException(400, "Verification token has expired."))
          ELSE Respond(s, r, HTTPException(400, "Invalid or expired verification token."))
    /\ UNCHANGED <<idRepr, users, now, ticks, nextTok, consumed, reused, bearer>>

\* variant: a token is still found at the instant of its expiry
verify_user_email_find_at_expiry(s, token) ==
    /\ Free(s)
    /\ LET r == [Request("verify_email", "update") EXCEPT
                    !.token = token, !.late = (<<"verify_email", token>> \in consumed)]
           user == find_one(users, LAMBDA d :
                       /\ d.verification_token = token
                       /\ d.verification_token_expires_at # None
                       /\ d.verification_token_expires_at >= now)
       IN IF user = 0
          THEN Respond(s, r, HTTPException(400, "Invalid or expired verification token."))
          ELSE Continue(s, [r EXCEPT !.doc_id = users[user]._id])
    /\ UNCHANGED <<idRepr, users, now, ticks, nextTok, consumed, reused, bearer>>

verify_user_email_find(s, token) ==
    /\ Free(s)
    /\ LET r == [Request("verify_email", "update") EXCEPT
                    !.token = token, !.late = (<<"verify_email", token>> \in consumed)]
           user == find_one(users, LAMBDA d :
                       /\ d.verification_token = token
                       /\ d.verification_token_expires_at # None
                       /\ d.verification_token_expires_at > now)
       IN IF user = 0
          THEN Respond(s, r, HTTPException(400, "Invalid or expired verification token."))
          ELSE Continue(s, [r EXCEPT !.doc_id = users[user]._id])
    /\ UNCHANGED <<idRepr, users, now, ticks, nextTok, consumed, reused, bearer>>

\* variant: the account is activated but the token fields are left in place
verify_user_email_set_keeps_token(doc, t) ==
    [doc EXCEPT !.is_verified = TRUE,
                !.status = ACTIVE,
                !.updated_at = t]

\* variant: the account is marked verified but its status is left as it was
verify_user_email_set_stays_pending(doc, t) ==
    [doc EXCEPT !.is_verified = TRUE,
                !.verification_token = None,
                !.verification_token_expires_at = None,
                !.updated_at = t]

verify_user_email_set(doc, t) ==
    [doc EXCEPT !.is_verified = TRUE,
                !.status = ACTIVE,
                !.verification_token = None,
                !.verification_token_expires_at = None,
                !.updated_at = t]

\* variant: the write is applied to every document of the collection
verify_user_email_update_many(s) ==
    /\ At(s, "verify_email", "update")
    /\ users' = [i \in 1..Len(users) |-> verify_user_email_set(users[i], now)]
    /\ Continue(s, [reqs[s] EXCEPT !.pc = "refetch"])
    /\ UNCHANGED <<idRepr, now, ticks, nextTok, consumed, reused, bearer>>

verify_user_email_update(s) ==
    /\ At(s, "verify_email", "update")
    /\ users' = update_one(users, LAMBDA d : d._id = reqs[s].doc_id,
                           LAMBDA d : verify_user_email_set(d, now))
    /\ Continue(s, [reqs[s] EXCEPT !.pc = "refetch"])
    /\ UNCHANGED <<idRepr, now, ticks, nextTok, consumed, reused, bearer>>

verify_user_email_refetch(s) ==
    /\ At(s, "verify_email", "refetch")
    /\ LET updated_user == find_one(users, LAMBDA d : d._id = reqs[s].doc_id)
       IN IF updated_user = 0
          THEN /\ Respond(s, reqs[s],
                          HTTPException(400, "Invalid or expired verification token."))
               /\ UNCHANGED <<consumed, reused>>
          ELSE /\ Respond(s, reqs[s], UserJson(200, users[updated_user]))
               /\ Consume("verify_email", reqs[s].token)
    /\ UNCHANGED <<idRepr, users, now, ticks, nextTok, bearer>>

(***************************************************************************)
(* POST /auth/resend-verification-email                                    *)
(***************************************************************************)
resend_verification_email_find(s, email) ==
    /\ Free(s)
    /\ nextTok + Cardinality(Generating) < MaxTokens
    /\ LET r == [Request("resend_verification", "store") EXCEPT !.email = email]
           user_doc == find_one(users, LAMBDA d : d.email = email)
       IN IF user_doc = 0
          THEN Respond(s, r, HTTPException(404, "User not found."))
          ELSE IF users[user_doc].is_verified
          THEN Respond(s, r, HTTPException(400, "Email already verified."))
          ELSE Continue(s, [r EXCEPT !.doc_id = PyObjectId(users[user_doc]._id)])
    /\ UNCHANGED <<idRepr, users, now, ticks, nextTok, consumed, reused, bearer>>

\* variant: the expiry is renewed but the stored token is left as it was
store_verification_token_set_keeps_old(doc, token, t) ==
    [doc EXCEPT !.verification_token_expires_at = t + EMAIL_VERIFICATION_TOKEN_EXPIRE_MINUTES,
                !.updated_at = t]

store_verification_token_set(doc, token, t) ==
    [doc EXCEPT !.verification_token = token,
                !.verification_token_expires_at = t + EMAIL_VERIFICATION_TOKEN_EXPIRE_MINUTES,
                !.updated_at = t]

\* the collection after the write, and the value returned
store_verification_token(coll, user_id, token, t) ==
    [coll |-> update_one(coll, LAMBDA d : d._id = json_encoders_ObjectId(user_id),
                         LAMBDA d : store_verification_token_set(d, token, t)),
     ok |-> modified_count(coll, LAMBDA d : d._id = json_encoders_ObjectId(user_id)) > 0]

resend_verification_email_store(s) ==
    /\ At(s, "resend_verification", "store")
    /\ LET new_verification_token == nextTok + 1
           updated == store_verification_token(users, reqs[s].doc_id,
                                               new_verification_token, now)
           r == [reqs[s] EXCEPT !.token = new_verification_token]
       IN /\ nextTok' = new_verification_token
          /\ users' = updated.coll
          /\ IF ~updated.ok
             THEN Respond(s, r, HTTPException(500, "Failed to update verification token."))
             ELSE Respond(s, [r EXCEPT !.task = "verification"],
                          Json(200, "Verification email resent successfully."))
    /\ UNCHANGED <<idRepr, now, ticks, consumed, reused, bearer>>

(***************************************************************************)
(* POST /auth/login                                                        *)
(***************************************************************************)
\* variant: the is_verified check is left out
login_without_verified_check(coll, email, password, t) ==
    LET user_doc == find_one(coll, LAMBDA d : d.email = email)
        user == coll[user_doc]
    IN IF user_doc = 0
       THEN HTTPException(401, "Incorrect email or password")
       ELSE IF verify_password(password, user.hashed_password) = "raise"
       THEN InternalServerError
       ELSE IF verify_password(password, user.hashed_password) = "false"
       THEN HTTPException(401, "Incorrect email or password")
       ELSE TokenJson(create_access_token(
                [email |-> user.email, role |-> user.role, id |-> PyObjectId(user._id)], t))

login_for_access_token(coll, email, password, t) ==
    LET user_doc == find_one(coll, LAMBDA d : d.email = email)
        user == coll[user_doc]
    IN IF user_doc = 0
       THEN HTTPException(401, "Incorrect email or password")
       ELSE IF verify_password(password, user.hashed_password) = "raise"
       THEN InternalServerError
       ELSE IF verify_password(password, user.hashed_password) = "false"
       THEN HTTPException(401, "Incorrect email or password")
       ELSE IF ~user.is_verified
       THEN HTTPException(403, "Account not verified. Please verify your email.")
       ELSE IF user.status # ACTIVE
       THEN HTTPException(403, "Account is inactive. Please contact support.")
       ELSE TokenJson(create_access_token(
                [email |-> user.email, role |-> user.role, id |-> PyObjectId(user._id)], t))

login(s, email, password) ==
    /\ Free(s)
    /\ Respond(s, [Request("login", "done") EXCEPT !.email = email, !.password = password],
               login_for_access_token(users, email, password, now))
    /\ UNCHANGED <<idRepr, users, now, ticks, nextTok, consumed, reused, bearer>>

(***************************************************************************)
(* POST /auth/reset-password-request                                       *)
(***************************************************************************)
GenericResetMessage == "If your email is registered, a password reset link has been sent."

request_password_reset_find(s, email) ==
    /\ Free(s)
    /\ nextTok + Cardinality(Generating) < MaxTokens
    /\ LET r == [Request("reset_request", "store") EXCEPT !.email = email]
           user_doc == find_one(users, LAMBDA d : d.email = email)
       IN IF user_doc = 0
          THEN Respond(s, r, Json(200, GenericResetMessage))
          ELSE Continue(s, [r EXCEPT !.doc_id = PyObjectId(users[user_doc]._id)])
    /\ UNCHANGED <<idRepr, users, now, ticks, nextTok, consumed, reused, bearer>>

\* variant: storing a reset token blanks the password until it is reset
store_reset_password_token_set_blanks_password(doc, token, t) ==
    [doc EXCEPT !.reset_password_token = token,
                !.reset_password_token_expires_at = t + PASSWORD_RESET_TOKEN_EXPIRE_MINUTES,
                !.hashed_password = hash_password(<<>>, doc.hashed_password.salt),
                !.updated_at = t]

\* variant: storing a reset token withdraws the verification token
store_reset_password_token_set_clears_verification(doc, token, t) ==
    [doc EXCEPT !.reset_password_token = token,
                !.reset_password_token_expires_at = t + PASSWORD_RESET_TOKEN_EXPIRE_MINUTES,
                !.verification_token = None,
                !.verification_token_expires_at = None,
                !.updated_at = t]

store_reset_password_token_set(doc, token, t) ==
    [doc EXCEPT !.reset_password_token = token,
                !.reset_password_token_expires_at = t + PASSWORD_RESET_TOKEN_EXPIRE_MINUTES,
                !.updated_at = t]

store_reset_password_token(coll, user_id, token, t) ==
    [coll |-> update_one(coll, LAMBDA d : d._id = json_encoders_ObjectId(user_id),
                         LAMBDA d : store_reset_password_token_set(d, token, t)),
     ok |-> modified_count(coll, LAMBDA d : d._id = json_encoders_ObjectId(user_id)) > 0]

request_password_reset_store(s) ==
    /\ At(s, "reset_request", "store")
    /\ LET reset_token == nextTok + 1
           updated == store_reset_password_token(users, reqs[s].doc_id, reset_token, now)
           r == [reqs[s] EXCEPT !.token = reset_token]
       IN /\ nextTok' = reset_token
          /\ users' = updated.coll
          /\ IF ~updated.ok
             THEN Respond(s, r, HTTPException(500, "Failed to generate password reset token."))
             ELSE Respond(s, [r EXCEPT !.task = "reset"], Json(200, GenericResetMessage))
    /\ UNCHANGED <<idRepr, now, ticks, consumed, reused, bearer>>

(***************************************************************************)
(* POST /auth/reset-password-confirm                                       *)
(***************************************************************************)
\* variant: a request that fails removes the reset token it was given
reset_user_password_find_clears_on_failure(s, token, new_password) ==
    /\ Free(s)
    /\ Len(new_password) >= MinPasswordLength
    /\ LET r == [Request("reset_confirm", "update") EXCEPT
                    !.token = token, !.password = new_password,
                    !.late = (<<"reset_confirm", token>> \in consumed)]
           user == find_one(users, LAMBDA d :
                       /\ d.reset_password_token = token
                       /\ d.reset_password_token_expires_at # None
                       /\ d.reset_password_token_expires_at > now)
       IN IF user = 0
          THEN /\ Respond(s, r, HTTPException(400, "Invalid or expired password reset token."))
               /\ users' = [i \in DOMAIN users |->
                               IF users[i].reset_password_token = token
                               THEN [users[i] EXCEPT !.reset_password_token = None,
                                                     !.reset_password_token_expires_at = None]
                               ELSE users[i]]
          ELSE /\ Continue(s, [r EXCEPT !.doc_id = users[user]._id])
               /\ users' = users
    /\ UNCHANGED <<idRepr, now, ticks, nextTok, consumed, reused, bearer>>

reset_user_password_find(s, token, new_password) ==
    /\ Free(s)
    /\ Len(new_password) >= MinPasswordLength
    /\ LET r == [Request("reset_confirm", "update") EXCEPT
                    !.token = token, !.password = new_password,
                    !.late = (<<"reset_confirm", token>> \in consumed)]
           user == find_one(users, LAMBDA d :
                       /\ d.reset_password_token = token
                       /\ d.reset_password_token_expires_at # None
                       /\ d.reset_password_token_expires_at > now)
       IN IF user = 0
          THEN Respond(s, r, HTTPException(400, "Invalid or expired password reset token."))
          ELSE Continue(s, [r EXCEPT !.doc_id = users[user]._id])
    /\ UNCHANGED <<idRepr, users, now, ticks, nextTok, consumed, reused, bearer>>

\* variant: the reset token is cleared but its expiry is left in place
reset_user_password_set_keeps_expiry(doc, new_password, t) ==
    [doc EXCEPT !.hashed_password = hash_password_placeholder(new_password),
                !.reset_password_token = None,
                !.updated_at = t]

reset_user_password_set(doc, new_password, t) ==
    [doc EXCEPT !.hashed_password = hash_password_placeholder(new_password),
                !.reset_password_token = None,
                !.reset_password_token_expires_at = None,
                !.updated_at = t]

\* variant: changing the password also withdraws the account's verification
reset_user_password_update_unverifying(s) ==
    /\ At(s, "reset_confirm", "update")
    /\ users' = update_one(users, LAMBDA d : d._id = reqs[s].doc_id,
                           LAMBDA d : [reset_user_password_set(d, reqs[s].password, now)
                                          EXCEPT !.is_verified = FALSE])
    /\ Continue(s, [reqs[s] EXCEPT !.pc = "refetch"])
    /\ UNCHANGED <<idRepr, now, ticks, nextTok, consumed, reused, bearer>>

reset_user_password_update(s) ==
    /\ At(s, "reset_confirm", "update")
    /\ users' = update_one(users, LAMBDA d : d._id = reqs[s].doc_id,
                           LAMBDA d : reset_user_password_set(d, reqs[s].password, now))
    /\ Continue(s, [reqs[s] EXCEPT !.pc = "refetch"])
    /\ UNCHANGED <<idRepr, now, ticks, nextTok, consumed, reused, bearer>>

reset_user_password_refetch(s) ==
    /\ At(s, "reset_confirm", "refetch")
    /\ LET updated_user == find_one(users, LAMBDA d : d._id = reqs[s].doc_id)
       IN IF updated_user = 0
          THEN /\ Respond(s, reqs[s],
                          HTTPException(400, "Invalid or expired password reset token."))
               /\ UNCHANGED <<consumed, reused>>
          ELSE /\ Respond(s, reqs[s], UserJson(200, users[updated_user]))
               /\ Consume("reset_confirm", reqs[s].token)
    /\ UNCHANGED <<idRepr, users, now, ticks, nextTok, bearer>>

(***************************************************************************)
(* Background e-mail tasks (verify_email.py, reset_password.py,            *)
(* email_utils.py).  send_email catches every transport error and returns  *)
(* a status; the task's return value is used by nobody.                    *)
(***************************************************************************)
EmailStatus == {"success", "error"}

send_email(to_email, status) == [status |-> status, to |-> to_email]

\* variant: a failed delivery takes the stored token back
send_verification_email_rollback(s, status) ==
    /\ At(s, reqs[s].op, "task")
    /\ reqs[s].task = "verification"
    /\ send_email(reqs[s].email, status).status \in EmailStatus
    /\ reqs' = [reqs EXCEPT ![s] = Idle]
    /\ users' = IF status = "success" THEN users
                ELSE [i \in DOMAIN users |->
                         IF users[i].email = reqs[s].email
                         THEN [users[i] EXCEPT !.verification_token = None,
                                               !.verification_token_expires_at = None]
                         ELSE users[i]]
    /\ UNCHANGED <<idRepr, now, ticks, nextTok, consumed, reused, bearer>>

send_verification_email(s, status) ==
    /\ At(s, reqs[s].op, "task")
    /\ reqs[s].task = "verification"
    /\ send_email(reqs[s].email, status).status \in EmailStatus
    /\ reqs' = [reqs EXCEPT ![s] = Idle]
    /\ UNCHANGED <<idRepr, users, now, ticks, nextTok, consumed, reused, bearer>>

send_password_reset_email(s, status) ==
    /\ At(s, reqs[s].op, "task")
    /\ reqs[s].task = "reset"
    /\ send_email(reqs[s].email, status).status \in EmailStatus
    /\ reqs' = [reqs EXCEPT ![s] = Idle]
    /\ UNCHANGED <<idRepr, users, now, ticks, nextTok, consumed, reused, bearer>>

(***************************************************************************)
(* Token decoding (jwt_handler.py) and the guards (auth.py).  A guard      *)
(* yields the principal, or the response of the exception it raises.       *)
(***************************************************************************)
NoTokenData == [email |-> "", role |-> "", id |-> NoId]
NoUser == [none |-> TRUE]
credentials_exception == HTTPException(401, "Could not validate credentials")
unverified_exception == HTTPException(403, "Account not verified. Please verify your email.")

TokenData(email, role, id) ==
    [ok |-> TRUE, data |-> [email |-> email, role |-> role, id |-> id], resp |-> NoResp]
Raised(resp) == [ok |-> FALSE, data |-> NoTokenData, user |-> NoUser, resp |-> resp]
Principal(user) == [ok |-> TRUE, data |-> NoTokenData, user |-> user, resp |-> NoResp]

\* jwt.decode checks the signature first and exp next (expired when
\* exp <= now); the claims are looked at afterwards
\* variant: a token is still accepted at the instant of its exp
decode_token_valid_at_exp(token, t) ==
    IF token.key # JWT_SECRET_KEY
    THEN Raised(credentials_exception)
    ELSE IF token.exp < t
    THEN Raised(HTTPException(401, "Token has expired"))
    ELSE IF {"email", "role", "id"} \ token.claims # {}
    THEN Raised(credentials_exception)
    ELSE IF token.role \notin UserRole
    THEN Raised(credentials_exception)
    ELSE TokenData(token.email, token.role, token.id)

decode_token(token, t) ==
    IF token.key # JWT_SECRET_KEY
    THEN Raised(credentials_exception)
    ELSE IF token.exp <= t
    THEN Raised(HTTPException(401, "Token has expired"))
    ELSE IF {"email", "role", "id"} \ token.claims # {}
    THEN Raised(credentials_exception)
    ELSE IF token.role \notin UserRole
    THEN Raised(credentials_exception)
    ELSE TokenData(token.email, token.role, token.id)

\* variant: an unverified admin is rejected like any unverified account
get_current_user_admin_unexempt(token, coll, t) ==
    LET token_data == decode_token(token, t)
        user_doc == find_one(coll, LAMBDA d : d._id = ObjectId(token_data.data.id))
        user == coll[user_doc]
    IN IF ~token_data.ok
       THEN Raised(token_data.resp)
       ELSE IF user_doc = 0
       THEN Raised(credentials_exception)
       ELSE IF ~user.is_verified
       THEN Raised(unverified_exception)
       ELSE Principal(user)

get_current_user(token, coll, t) ==
    LET token_data == decode_token(token, t)
        user_doc == find_one(coll, LAMBDA d : d._id = ObjectId(token_data.data.id))
        user == coll[user_doc]
    IN IF ~token_data.ok
       THEN Raised(token_data.resp)
       ELSE IF user_doc = 0
       THEN Raised(credentials_exception)
       ELSE IF ~user.is_verified /\ user.role # ADMIN
       THEN Raised(unverified_exception)
       ELSE Principal(user)

get_current_active_user(current_user) ==
    IF ~current_user.ok
    THEN current_user
    ELSE IF current_user.user.status # ACTIVE
    THEN Raised(HTTPException(400, "Inactive user"))
    ELSE current_user

get_current_admin_user(current_user) ==
    IF ~current_user.ok
    THEN current_user
    ELSE IF current_user.user.role # ADMIN
    THEN Raised(HTTPException(403, "Not enough permissions. Admin access required."))
    ELSE current_user

get_current_teacher_or_admin_user(current_user) ==
    IF ~current_user.ok
    THEN current_user
    ELSE IF current_user.user.role \notin {TEACHER, ADMIN}
    THEN Raised(HTTPException(403, "Not enough permissions. Teacher or Admin access required."))
    ELSE current_user

get_current_student_user(current_user) ==
    IF ~current_user.ok
    THEN current_user
    ELSE IF current_user.user.role # STUDENT
    THEN Raised(HTTPException(403, "Not enough permissions. Student access required."))
    ELSE current_user

(***************************************************************************)
(* GET /auth/protected/...: the route returns the guard's principal as     *)
(* UserResponse.                                                           *)
(***************************************************************************)
\* the bearer tokens a request of the client can carry
Held == IF bearer = NoAccess THEN {} ELSE {bearer}

protected_route(s, route, token, current_user) ==
    /\ Free(s)
    /\ Respond(s, [Request(route, "done") EXCEPT !.access = token],
               IF current_user.ok THEN UserJson(200, current_user.user)
               ELSE current_user.resp)
    /\ UNCHANGED <<idRepr, users, now, ticks, nextTok, consumed, reused, bearer>>

\* variant: the role is tested before the status
protected_student_route_role_first(s, token) ==
    protected_route(s, "protected_student", token,
        get_current_active_user(get_current_student_user(get_current_user(token, users, now))))

protected_student_route(s, token) ==
    protected_route(s, "protected_student", token,
        get_current_student_user(get_current_active_user(get_current_user(token, users, now))))

protected_teacher_route(s, token) ==
    protected_route(s, "protected_teacher", token,
        get_current_teacher_or_admin_user(
            get_current_active_user(get_current_user(token, users, now))))

\* variant: the admin route asks for an active account of any role
protected_admin_route_any_role(s, token) ==
    protected_route(s, "protected_admin", token,
        get_current_active_user(get_current_user(token, users, now)))

protected_admin_route(s, token) ==
    protected_route(s, "protected_admin", token,
        get_current_admin_user(get_current_active_user(get_current_user(token, users, now))))

protected_any_active_route(s, token) ==
    protected_route(s, "protected_any_active", token,
        get_current_active_user(get_current_user(token, users, now)))

(***************************************************************************)
(* One step of the service: a response is sent, time passes, a request     *)
(* arrives (slots S, inputs E, P, R) or a request in flight takes its next *)
(* store access.                                                           *)
(***************************************************************************)
Service(S, E, P, R, D) ==
    \/ \E s \in S : send_response(s)
    \/ \E d \in D : Tick(d)
    \/ \E s \in S, e \in E, p \in P, r \in R : register_user_find(s, e, p, r)
    \/ \E s \in S, salt \in Salts : register_user_insert(s, salt)
    \/ \E s \in S, t \in TokenInputs : verify_user_email_find(s, t)
    \/ \E s \in S : verify_user_email_update(s)
    \/ \E s \in S : verify_user_email_refetch(s)
    \/ \E s \in S, e \in E : resend_verification_email_find(s, e)
    \/ \E s \in S : resend_verification_email_store(s)
    \/ \E s \in S, e \in E, p \in P : login(s, e, p)
    \/ \E s \in S, e \in E : request_password_reset_find(s, e)
    \/ \E s \in S : request_password_reset_store(s)
    \/ \E s \in S, t \in TokenInputs, p \in P : reset_user_password_find(s, t, p)
    \/ \E s \in S : reset_user_password_update(s)
    \/ \E s \in S : reset_user_password_refetch(s)
    \/ \E s \in S, status \in EmailStatus : send_verification_email(s, status)
    \/ \E s \in S, status \in EmailStatus : send_password_reset_email(s, status)
    \/ \E s \in S, token \in Held : protected_student_route(s, token)
    \/ \E s \in S, token \in Held : protected_teacher_route(s, token)
    \/ \E s \in S, token \in Held : protected_admin_route(s, token)
    \/ \E s \in S, token \in Held : protected_any_active_route(s, token)

(***************************************************************************)
(* The token codec and the guards on their own: an account document of any *)
(* role, status and verified flag is in the store, tokens are issued for   *)
(* claims drawn from ClaimsInputs, and the protected routes are requested  *)
(* with the token held, or with a string that is no token.  The account    *)
(* may hold a reset token, which reset-password-confirm then consumes.     *)
(***************************************************************************)
GuardTickSteps == {ACCESS_TOKEN_EXPIRE_MINUTES - 1, ACCESS_TOKEN_EXPIRE_MINUTES}
OtherKey == "another_secret"
MalformedToken ==
    [id |-> NoId, email |-> "", role |-> "", claims |-> {}, exp |-> 0, key |-> ""]

GuardResetTokens == {None, 1}

GuardAccounts ==
    {[UserModel([repr |-> repr, n |-> 1], "a@x.com", hash_password(PasswordA, 1),
                role, None, None, 0)
         EXCEPT !.status = st, !.is_verified = v,
                !.reset_password_token = rt,
                !.reset_password_token_expires_at =
                    IF rt = None THEN None ELSE PASSWORD_RESET_TOKEN_EXPIRE_MINUTES] :
        repr \in IdReprs, role \in UserRole, st \in UserStatus, v \in BOOLEAN,
        rt \in GuardResetTokens}

ClaimsInputs ==
    {[id |-> [repr |-> "str", n |-> n], email |-> "a@x.com", role |-> r] :
        n \in 1..2, r \in {STUDENT, ADMIN}}
    \cup {[id |-> [repr |-> "str", n |-> 1], email |-> "a@x.com"],
          [id |-> [repr |-> "str", n |-> 1], role |-> STUDENT],
          [email |-> "a@x.com", role |-> STUDENT]}

InitGuard ==
    /\ users \in {<<doc>> : doc \in GuardAccounts}
    /\ idRepr = users[1]._id.repr
    /\ now = 0
    /\ ticks = 0
    /\ nextTok = users[1].reset_password_token
    /\ reqs = [s \in Slots |-> Idle]
    /\ consumed = {}
    /\ reused = {}
    /\ bearer = NoAccess

issue_access_token(data) ==
    /\ Quiet
    /\ bearer = NoAccess
    /\ bearer' = create_access_token(data, now)
    /\ UNCHANGED <<idRepr, users, now, ticks, nextTok, reqs, consumed, reused>>

\* a token with the same payload, signed with a key that is not the service's
sign_with_other_key(data) ==
    /\ Quiet
    /\ bearer = NoAccess
    /\ bearer' = [create_access_token(data, now) EXCEPT !.key = OtherKey]
    /\ UNCHANGED <<idRepr, users, now, ticks, nextTok, reqs, consumed, reused>>

NextGuard ==
    \/ \E data \in ClaimsInputs : issue_access_token(data)
    \/ \E data \in ClaimsInputs : sign_with_other_key(data)
    \/ \E d \in GuardTickSteps : Tick(d)
    \/ send_response(1)
    \/ \E token \in Held \cup {MalformedToken} : protected_student_route(1, token)
    \/ \E token \in Held \cup {MalformedToken} : protected_teacher_route(1, token)
    \/ \E token \in Held \cup {MalformedToken} : protected_admin_route(1, token)
    \/ \E token \in Held \cup {MalformedToken} : protected_any_active_route(1, token)
    \/ \E t \in TokenInputs : reset_user_password_find(1, t, PasswordB)
    \/ reset_user_password_update(1)
    \/ reset_user_password_refetch(1)

SpecGuard == InitGuard /\ [][NextGuard]_vars

\* requests handled one at a time
Next == Service({1}, Emails, Passwords, RegisterRoles, TickSteps)

Spec == Init /\ [][Next]_vars

\* requests handled concurrently, for one e-mail address
NextRace == Service(Slots, RaceEmails, Passwords, RaceRoles, RaceTickSteps)

SpecRace == Init /\ [][NextRace]_vars

(***************************************************************************)
(* The service started on a store that already holds one account: of any   *)
(* role, verified and active, unverified and pending with its verification *)
(* token, or set inactive in either case (the status that Login and the    *)
(* active guard test for, and that no handler writes).                     *)
(***************************************************************************)
StoredAccounts ==
    {doc \in
        {[UserModel([repr |-> repr, n |-> 1], "a@x.com", hash_password(PasswordA, 1), role,
                    IF v THEN None ELSE 1,
                    IF v THEN None ELSE EMAIL_VERIFICATION_TOKEN_EXPIRE_MINUTES, 0)
             EXCEPT !.status = st, !.is_verified = v] :
            repr \in IdReprs, role \in UserRole, v \in BOOLEAN, st \in UserStatus} :
        doc.status = (IF doc.is_verified THEN ACTIVE ELSE PENDING_VERIFICATION)
        \/ doc.status = INACTIVE}

InitStored ==
    /\ users \in {<<doc>> : doc \in StoredAccounts}
    /\ idRepr = users[1]._id.repr
    /\ now = 0
    /\ ticks = 0
    /\ nextTok = 1
    /\ reqs = [s \in Slots |-> Idle]
    /\ consumed = {}
    /\ reused = {}
    /\ bearer = NoAccess

NextStored == Service({1}, Emails, Passwords, RegisterRoles, TickSteps)

SpecStored == InitStored /\ [][NextStored]_vars

(***************************************************************************)
(* Vocabulary of the properties.                                           *)
(***************************************************************************)
Accounts == 1..Len(users)
Responded(s, op) == reqs[s].pc = "done" /\ reqs[s].op = op

\* the digest was made from this password by one of the two hashers
IsPasswordOf(password, digest) ==
    \/ digest = hash_password(password, digest.salt)
    \/ digest = hash_password_placeholder(password)

AccountOf(email) == find_one(users, LAMBDA d : d.email = email)
LoginResponse(email, password) == login_for_access_token(users, email, password, now)
InvalidCredentials == HTTPException(401, "Incorrect email or password")
ForbiddenUnverified == HTTPException(403, "Account not verified. Please verify your email.")

C2_VerifyTokenSucceedsOnce ==
    \A t \in 1..nextTok : <<"verify_email", t>> \notin reused

(***************************************************************************)
(* C3: a verify-email (resp. reset-password-confirm) request that arrives  *)
(* after a request of the same kind has succeeded with the same token is   *)
(* answered 400 at once and changes no account.                            *)
(***************************************************************************)
C3_ConsumedTokenRejected ==
    [][\A s \in Slots :
          (reqs[s].pc = "idle" /\ reqs'[s].pc # "idle" /\ reqs'[s].late)
          => /\ reqs'[s].pc = "done"
             /\ reqs'[s].resp.status = 400
             /\ reqs'[s].resp.body = NoBody
             /\ users' = users]_vars

C3_Witness ==
    \E s \in Slots :
        /\ Responded(s, "verify_email")
        /\ reqs[s].late
        /\ reqs[s].resp.status = 400
        /\ \E i \in Accounts : users[i].is_verified

C8_AdminBypassAtLogin ==
    \A e \in Emails, p \in Passwords :
        (/\ AccountOf(e) # 0
         /\ IsPasswordOf(p, users[AccountOf(e)].hashed_password)
         /\ ~users[AccountOf(e)].is_verified
         /\ users[AccountOf(e)].role = ADMIN)
        => /\ LoginResponse(e, p).status = 200
           /\ LoginResponse(e, p).access_token # NoAccess

(***************************************************************************)
(* C9: every response that carries an access token is a Login response     *)
(* for an account that exists, whose stored digest matches the submitted   *)
(* password, that is verified (or admin) and active at that moment, and    *)
(* the token's claims id, email and role are that account's.               *)
(***************************************************************************)
C9_TokenOnlyFromPassedLogin ==
    \A s \in Slots :
        (reqs[s].pc = "done" /\ reqs[s].resp.access_token # NoAccess)
        => /\ reqs[s].op = "login"
           /\ reqs[s].resp.status = 200
           /\ AccountOf(reqs[s].email) # 0
           /\ LET user == users[AccountOf(reqs[s].email)]
                  token == reqs[s].resp.access_token
              IN /\ verify_password(reqs[s].password, user.hashed_password) = "true"
                 /\ (user.is_verified \/ user.role = ADMIN)
                 /\ user.status = ACTIVE
                 /\ token.id = PyObjectId(user._id)
                 /\ token.email = user.email
                 /\ token.role = user.role

C9_Witness ==
    \E s \in Slots :
        /\ Responded(s, "login")
        /\ reqs[s].resp.status = 200
        /\ reqs[s].resp.access_token # NoAccess

(***************************************************************************)
(* C10: reset-password-request returns the same 200 generic message        *)
(* whether or not an account with the email exists.                        *)
(***************************************************************************)
C10_ResetRequestGeneric ==
    \A s \in Slots :
        Responded(s, "reset_request") => reqs[s].resp = Json(200, GenericResetMessage)

(***************************************************************************)
(* C11: registering the same email twice in sequence: the first Register   *)
(* answers 201 and adds exactly one account; the second answers 409, adds  *)
(* none and leaves the existing account unchanged.                         *)
(***************************************************************************)
Arrives(s, op) == reqs[s].pc = "idle" /\ reqs'[s].pc # "idle" /\ reqs'[s].op = op

C11_DuplicateRegisterConflict ==
    [][\A s \in Slots :
          /\ (Arrives(s, "register") /\ AccountOf(reqs'[s].email) # 0)
             => /\ reqs'[s].pc = "done"
                /\ reqs'[s].resp = HTTPException(409, "Email already registered.")
                /\ users' = users
          /\ (Arrives(s, "register") /\ AccountOf(reqs'[s].email) = 0)
             => /\ reqs'[s].pc = "insert"
                /\ users' = users
          /\ (reqs[s].op = "register" /\ reqs[s].pc = "insert" /\ reqs'[s] # reqs[s])
             => /\ reqs'[s].pc = "done"
                /\ reqs'[s].resp.status = 201
                /\ Len(users') = Len(users) + 1
                /\ SubSeq(users', 1, Len(users)) = users
                /\ users'[Len(users')].email = reqs[s].email]_vars

C11_Witness ==
    \E s \in Slots :
        /\ Responded(s, "register")
        /\ reqs[s].resp.status = 409
        /\ Cardinality({i \in Accounts : users[i].email = reqs[s].email}) = 1

(***************************************************************************)
(* C12: in every reachable state, also when Register requests for the same *)
(* email run concurrently, no two accounts share an email.                 *)
(***************************************************************************)
C12_EmailUnique ==
    \A i \in Accounts, j \in Accounts : users[i].email = users[j].email => i = j

(***************************************************************************)
(* C13: a successful Register adds exactly one account, with               *)
(* status=pending_verification, verified=false, a verification token whose *)
(* expiry is now + the verification TTL, no reset token, a password digest *)
(* that is not the plaintext, and the supplied role (student when none is  *)
(* supplied); the token handed to e-mail delivery is the stored one.       *)
(***************************************************************************)
C13_RegisterCreatesPendingAccount ==
    [][\A s \in Slots :
          (reqs[s].op = "register" /\ reqs[s].pc = "insert" /\ reqs'[s] # reqs[s])
          => LET doc == users'[Len(users')]
             IN /\ reqs'[s].pc = "done"
                /\ reqs'[s].resp.status = 201
                /\ Len(users') = Len(users) + 1
                /\ SubSeq(users', 1, Len(users)) = users
                /\ doc.email = reqs[s].email
                /\ doc.status = PENDING_VERIFICATION
                /\ doc.is_verified = FALSE
                /\ doc.verification_token # None
                /\ \A i \in Accounts : users[i].verification_token # doc.verification_token
                /\ doc.verification_token_expires_at
                      = now + EMAIL_VERIFICATION_TOKEN_EXPIRE_MINUTES
                /\ doc.reset_password_token = None
                /\ doc.reset_password_token_expires_at = None
                /\ doc.hashed_password.ident = "$2b$"
                /\ ~Contains(doc.hashed_password.text, reqs[s].password)
                /\ verify_password(reqs[s].password, doc.hashed_password) = "true"
                /\ doc.role = (IF reqs[s].role = Unset THEN STUDENT ELSE reqs[s].role)
                /\ reqs'[s].token = doc.verification_token]_vars

C13_Witness ==
    \E s \in Slots :
        /\ Responded(s, "register")
        /\ reqs[s].resp.status = 201
        /\ reqs[s].role = Unset
        /\ Len(users) = 2
        /\ users[2].email = reqs[s].email
        /\ users[2].role = STUDENT
        /\ users[2].verification_token = reqs[s].token
        /\ users[1].role = ADMIN

(***************************************************************************)
(* C14: Verify Email with a token equal to an account's stored, unexpired  *)
(* verification token sets that account to verified=true, status=active    *)
(* and clears the verification token and its expiry, changing no other     *)
(* account, and answers 200; with any other token it answers 400 and       *)
(* changes nothing.                                                        *)
(***************************************************************************)
VerificationHolders(token) ==
    {i \in Accounts : /\ users[i].verification_token = token
                      /\ users[i].verification_token_expires_at > now}

C14_VerifyEmailActivates ==
    [][\A s \in Slots :
          /\ (Arrives(s, "verify_email") /\ VerificationHolders(reqs'[s].token) = {})
             => /\ reqs'[s].pc = "done"
                /\ reqs'[s].resp
                     = HTTPException(400, "Invalid or expired verification token.")
                /\ users' = users
          /\ (Arrives(s, "verify_email") /\ VerificationHolders(reqs'[s].token) # {})
             => /\ reqs'[s].pc = "update"
                /\ users' = users
          /\ (reqs[s].op = "verify_email" /\ reqs[s].pc = "update" /\ reqs'[s] # reqs[s])
             => \E i \in Accounts :
                   /\ users[i].verification_token = reqs[s].token
                   /\ Len(users') = Len(users)
                   /\ users'[i].is_verified = TRUE
                   /\ users'[i].status = ACTIVE
                   /\ users'[i].verification_token = None
                   /\ users'[i].verification_token_expires_at = None
                   /\ users'[i].email = users[i].email
                   /\ users'[i].hashed_password = users[i].hashed_password
                   /\ users'[i].role = users[i].role
                   /\ \A j \in Accounts \ {i} : users'[j] = users[j]
          /\ (reqs[s].op = "verify_email" /\ reqs[s].pc = "refetch" /\ reqs'[s] # reqs[s])
             => /\ reqs'[s].pc = "done"
                /\ reqs'[s].resp.status = 200
                /\ reqs'[s].resp.body.is_verified = TRUE
                /\ reqs'[s].resp.body.status = ACTIVE
                /\ users' = users]_vars

C14_Witness ==
    \E s \in Slots :
        /\ Responded(s, "verify_email")
        /\ reqs[s].resp.status = 200
        /\ Len(users) = 2
        /\ \E i \in Accounts :
              /\ users[i].email = reqs[s].resp.body.email
              /\ users[i].is_verified
              /\ users[i].status = ACTIVE
              /\ users[i].verification_token = None
        /\ \E j \in Accounts :
              /\ ~users[j].is_verified
              /\ users[j].verification_token # None

(***************************************************************************)
(* C15: a verify-email or reset-password-confirm request whose token is    *)
(* an account's stored token but whose stored expiry is not strictly later *)
(* than the current time (expiry <= now, expiry = now included) is         *)
(* answered 400 and has no side effect.                                    *)
(***************************************************************************)
ExpiredVerification(token) ==
    \E i \in Accounts : /\ users[i].verification_token = token
                         /\ users[i].verification_token_expires_at <= now

ExpiredReset(token) ==
    \E i \in Accounts : /\ users[i].reset_password_token = token
                         /\ users[i].reset_password_token_expires_at <= now

C15_ExpiredTokenRejected ==
    [][\A s \in Slots :
          /\ (Arrives(s, "verify_email") /\ ExpiredVerification(reqs'[s].token))
             => /\ reqs'[s].pc = "done"
                /\ reqs'[s].resp.status = 400
                /\ reqs'[s].resp.body = NoBody
                /\ users' = users
                /\ consumed' = consumed
          /\ (Arrives(s, "reset_confirm") /\ ExpiredReset(reqs'[s].token))
             => /\ reqs'[s].pc = "done"
                /\ reqs'[s].resp.status = 400
                /\ reqs'[s].resp.body = NoBody
                /\ users' = users
                /\ consumed' = consumed]_vars

C15_Witness ==
    \E s \in Slots :
        /\ Responded(s, "verify_email")
        /\ reqs[s].resp.status = 400
        /\ \E i \in Accounts :
              /\ users[i].verification_token = reqs[s].token
              /\ users[i].verification_token_expires_at = now
              /\ ~users[i].is_verified

C15_ResetAtExpiryReached ==
    \E s \in Slots :
        /\ Responded(s, "reset_confirm")
        /\ reqs[s].resp.status = 400
        /\ \E i \in Accounts :
              /\ users[i].reset_password_token = reqs[s].token
              /\ users[i].reset_password_token_expires_at = now

(***************************************************************************)
(* C16: every verify-email request that does not succeed gets one and the  *)
(* same response (400, same detail), whether its token never existed, has  *)
(* expired, was already consumed or was superseded; likewise every         *)
(* reset-password-confirm request that does not succeed.                   *)
(***************************************************************************)
C16_ConsumeFailuresAlike ==
    \A s \in Slots :
        /\ (Responded(s, "verify_email") /\ reqs[s].resp.status # 200)
           => reqs[s].resp = HTTPException(400, "Invalid or expired verification token.")
        /\ (Responded(s, "reset_confirm") /\ reqs[s].resp.status # 200)
           => reqs[s].resp = HTTPException(400, "Invalid or expired password reset token.")

\* the first account's first verification token, superseded by a resend
C16_Witness ==
    \E s \in Slots :
        /\ Responded(s, "verify_email")
        /\ reqs[s].resp.status = 400
        /\ reqs[s].token = 1
        /\ ticks = 0
        /\ <<"verify_email", 1>> \notin consumed
        /\ users[1].verification_token = 2
        /\ users[1].verification_token_expires_at > now

(***************************************************************************)
(* C17: Resend Verification answers 404 for an email with no account and   *)
(* 400 for an account with verified=true, changing nothing; for an         *)
(* existing unverified account it stores a freshly generated verification  *)
(* token with a fresh expiry, hands it to e-mail delivery and answers 200. *)
(***************************************************************************)
C17_ResendOutcomes ==
    \A s \in Slots :
        Responded(s, "resend_verification")
        => LET i == AccountOf(reqs[s].email)
           IN IF i = 0
              THEN reqs[s].resp = HTTPException(404, "User not found.")
              ELSE IF users[i].is_verified
              THEN reqs[s].resp = HTTPException(400, "Email already verified.")
              ELSE /\ reqs[s].resp = Json(200, "Verification email resent successfully.")
                   /\ reqs[s].token = nextTok
                   /\ users[i].verification_token = reqs[s].token
                   /\ users[i].verification_token_expires_at
                         = now + EMAIL_VERIFICATION_TOKEN_EXPIRE_MINUTES

(***************************************************************************)
(* C18: at most one token per purpose is outstanding per account: a        *)
(* successful Resend Verification (resp. Request Password Reset for an     *)
(* existing account) replaces the account's verification (resp. reset)     *)
(* token by the new one, so that the previous token, although not expired, *)
(* is rejected by verify-email (resp. reset-password-confirm) and only the *)
(* newest token is accepted.                                               *)
(***************************************************************************)
ResetHolders(token) ==
    {i \in Accounts : /\ users[i].reset_password_token = token
                      /\ users[i].reset_password_token_expires_at > now}

Stored(s, op) ==
    /\ reqs[s].op = op /\ reqs[s].pc = "store"
    /\ reqs'[s].pc = "done" /\ reqs'[s].resp.status = 200

C18_OneOutstandingToken ==
    [][\A s \in Slots :
          /\ Stored(s, "resend_verification")
             => \E i \in Accounts :
                   /\ users[i].email = reqs[s].email
                   /\ reqs'[s].token \notin {users[j].verification_token : j \in Accounts}
                   /\ users'[i].verification_token = reqs'[s].token
                   /\ users'[i].verification_token_expires_at > now
                   /\ \A j \in Accounts :
                         users'[j].verification_token # users[i].verification_token
                   /\ \A j \in Accounts \ {i} : users'[j] = users[j]
          /\ Stored(s, "reset_request")
             => \E i \in Accounts :
                   /\ users[i].email = reqs[s].email
                   /\ reqs'[s].token \notin {users[j].reset_password_token : j \in Accounts}
                   /\ users'[i].reset_password_token = reqs'[s].token
                   /\ users'[i].reset_password_token_expires_at > now
                   /\ users[i].reset_password_token # None
                      => \A j \in Accounts :
                            users'[j].reset_password_token # users[i].reset_password_token
                   /\ \A j \in Accounts \ {i} : users'[j] = users[j]
          /\ Arrives(s, "verify_email")
             => IF VerificationHolders(reqs'[s].token) = {}
                THEN reqs'[s].pc = "done" /\ reqs'[s].resp.status = 400 /\ users' = users
                ELSE reqs'[s].pc = "update"
          /\ Arrives(s, "reset_confirm")
             => IF ResetHolders(reqs'[s].token) = {}
                THEN reqs'[s].pc = "done" /\ reqs'[s].resp.status = 400 /\ users' = users
                ELSE reqs'[s].pc = "update"]_vars

\* the first account's first reset token, superseded by a second request
C18_Witness ==
    \E s \in Slots :
        /\ Responded(s, "reset_confirm")
        /\ reqs[s].resp.status = 400
        /\ reqs[s].token = 2
        /\ ticks = 0
        /\ <<"reset_confirm", 2>> \notin consumed
        /\ Len(users) = 1
        /\ users[1].verification_token = 1
        /\ users[1].reset_password_token = 3
        /\ users[1].reset_password_token_expires_at > now

(***************************************************************************)
(* C19: in every reachable state, after any interleaving of register,      *)
(* resend, verify-email, reset-request and reset-confirm, every account    *)
(* has its verification token and expiry both null or both set, and its    *)
(* reset token and expiry both null or both set.                           *)
(***************************************************************************)
C19_TokenAndExpiryTogether ==
    \A i \in Accounts :
        /\ (users[i].verification_token = None)
             <=> (users[i].verification_token_expires_at = None)
        /\ (users[i].reset_password_token = None)
             <=> (users[i].reset_password_token_expires_at = None)

C19_Witness ==
    \E i \in Accounts, s \in Slots :
        /\ users[i].verification_token = None
        /\ users[i].verification_token_expires_at = None
        /\ users[i].reset_password_token # None
        /\ users[i].reset_password_token_expires_at # None
        /\ <<"reset_confirm", 2>> \in consumed
        /\ reqs[s].op = "verify_email"
        /\ reqs[s].pc = "refetch"

(***************************************************************************)
(* C20: in every reachable state, every account with verified=true has a   *)
(* status other than pending_verification.                                 *)
(***************************************************************************)
C20_VerifiedNotPending ==
    \A i \in Accounts : users[i].is_verified => users[i].status # PENDING_VERIFICATION

C20_Witness ==
    \E i \in Accounts, j \in Accounts :
        /\ users[i].is_verified
        /\ users[i].status = ACTIVE
        /\ ~users[j].is_verified
        /\ users[j].status = PENDING_VERIFICATION

(***************************************************************************)
(* C21: a protected request of role variant V (student-only,               *)
(* teacher-or-admin, admin-only, any-active) is answered with a principal  *)
(* if and only if its bearer token decodes and is unexpired, an account    *)
(* whose _id is the ObjectId of the token's subject is in the store, that  *)
(* account is verified or has role admin, its status is active and its     *)
(* stored role is allowed by V; the principal returned is the public view  *)
(* of that account.                                                        *)
(***************************************************************************)
ProtectedRoutes ==
    {"protected_student", "protected_teacher", "protected_admin", "protected_any_active"}

AllowedRoles(route) ==
    CASE route = "protected_student" -> {STUDENT}
      [] route = "protected_teacher" -> {TEACHER, ADMIN}
      [] route = "protected_admin" -> {ADMIN}
      [] route = "protected_any_active" -> UserRole

Decodes(token) ==
    /\ token.key = JWT_SECRET_KEY
    /\ token.exp > now
    /\ token.claims = {"id", "email", "role"}
    /\ token.role \in UserRole

Subjects(token) == {i \in Accounts : users[i]._id = [repr |-> "oid", n |-> token.id.n]}

C21_GuardAcceptance ==
    \A s \in Slots :
        (reqs[s].pc = "done" /\ reqs[s].op \in ProtectedRoutes)
        => LET token == reqs[s].access
               accepted == {i \in Subjects(token) :
                               /\ users[i].is_verified \/ users[i].role = ADMIN
                               /\ users[i].status = ACTIVE
                               /\ users[i].role \in AllowedRoles(reqs[s].op)}
           IN /\ reqs[s].resp.status = 200 <=> (Decodes(token) /\ accepted # {})
              /\ reqs[s].resp.status = 200
                 => \E i \in accepted :
                       /\ reqs[s].resp.body.id = token.id
                       /\ reqs[s].resp.body.email = users[i].email
                       /\ reqs[s].resp.body.full_name = users[i].full_name
                       /\ reqs[s].resp.body.role = users[i].role
                       /\ reqs[s].resp.body.status = users[i].status
                       /\ reqs[s].resp.body.is_verified = users[i].is_verified

\* an unverified admin whose status is active is let through
C21_Witness ==
    \E s \in Slots :
        /\ Responded(s, "protected_teacher")
        /\ reqs[s].resp.status = 200
        /\ reqs[s].resp.body.role = ADMIN
        /\ reqs[s].resp.body.is_verified = FALSE
        /\ reqs[s].access.role = STUDENT
        /\ now = ACCESS_TOKEN_EXPIRE_MINUTES - 1

(***************************************************************************)
(* C22: whatever variant is requested, the guard chain answers with the    *)
(* rejection of the first failing check in the order identity, verified,   *)
(* active, role: 401 for a token that fails to decode or whose subject     *)
(* account is absent, 403 (unverified) for an unverified non-admin, 400    *)
(* (inactive) for a status other than active, 403 (insufficient role) for  *)
(* a role the variant does not allow.                                      *)
(***************************************************************************)
C22_GuardFailsFastInOrder ==
    \A s \in Slots :
        (reqs[s].pc = "done" /\ reqs[s].op \in ProtectedRoutes)
        => LET token == reqs[s].access
               resp == reqs[s].resp
               user == users[CHOOSE i \in Subjects(token) : TRUE]
           IN IF ~Decodes(token) \/ Subjects(token) = {}
              THEN resp.status = 401 /\ resp.body = NoBody
              ELSE IF ~user.is_verified /\ user.role # ADMIN
              THEN resp = HTTPException(403, "Account not verified. Please verify your email.")
              ELSE IF user.status # ACTIVE
              THEN resp = HTTPException(400, "Inactive user")
              ELSE IF user.role \notin AllowedRoles(reqs[s].op)
              THEN /\ resp.status = 403
                   /\ resp.body = NoBody
                   /\ resp.detail # "Account not verified. Please verify your email."
              ELSE resp.status = 200

\* an unverified, inactive student asking for the admin route
C22_Witness ==
    \E s \in Slots :
        /\ Responded(s, "protected_admin")
        /\ reqs[s].resp = HTTPException(403, "Account not verified. Please verify your email.")
        /\ Decodes(reqs[s].access)
        /\ \E i \in Subjects(reqs[s].access) :
              /\ ~users[i].is_verified
              /\ users[i].status = INACTIVE
              /\ users[i].role = STUDENT

(***************************************************************************)
(* C23: a token issued for the claims {id, email, role} decodes, at the    *)
(* time of issue, to exactly those claims; once its time to live has       *)
(* elapsed it decodes to the expired error; a token signed with another    *)
(* secret decodes to an error and never to claims.                         *)
(***************************************************************************)
C23_CodecRoundTrip ==
    [][/\ \A data \in ClaimsInputs :
             (/\ DOMAIN data = {"id", "email", "role"}
              /\ bearer = NoAccess
              /\ bearer' = create_access_token(data, now))
             => /\ decode_token(bearer', now').ok
                /\ decode_token(bearer', now').data = data
                /\ bearer'.exp = now' + ACCESS_TOKEN_EXPIRE_MINUTES
       /\ (/\ bearer' # NoAccess
           /\ bearer'.key = JWT_SECRET_KEY
           /\ bearer'.claims = {"id", "email", "role"})
          => /\ now' < bearer'.exp
                => decode_token(bearer', now') =
                       TokenData(bearer'.email, bearer'.role, bearer'.id)
             /\ now' >= bearer'.exp
                => decode_token(bearer', now') =
                       Raised(HTTPException(401, "Token has expired"))
       /\ (bearer' # NoAccess /\ bearer'.key # JWT_SECRET_KEY)
          => /\ ~decode_token(bearer', now').ok
             /\ decode_token(bearer', now').data = NoTokenData
      ]_vars

\* the token is presented at the instant of its exp and refused as expired
C23_Witness ==
    \E s \in Slots :
        /\ reqs[s].pc = "done"
        /\ reqs[s].op \in ProtectedRoutes
        /\ reqs[s].access.key = JWT_SECRET_KEY
        /\ reqs[s].access.claims = {"id", "email", "role"}
        /\ reqs[s].access.exp = now
        /\ reqs[s].resp = HTTPException(401, "Token has expired")

\* the decode failure a token presented at time t runs into
DecodeFailure(token, t) ==
    IF token.key # JWT_SECRET_KEY THEN "Malformed/InvalidSignature"
    ELSE IF token.exp <= t THEN "Expired"
    ELSE IF {"email", "role", "id"} \ token.claims # {} THEN "MissingRequiredClaim"
    ELSE "none"

\* one token of each failure kind, as presented at time t
FailingTokens(t) ==
    {MalformedToken,
     create_access_token([id |-> [repr |-> "str", n |-> 1], email |-> "a@x.com",
                          role |-> STUDENT], t - ACCESS_TOKEN_EXPIRE_MINUTES),
     create_access_token([email |-> "a@x.com", role |-> STUDENT], t)}

(***************************************************************************)
(* C24: the decode failures Expired, Malformed/InvalidSignature and        *)
(* MissingRequiredClaim are answered differently: the response to a token  *)
(* failing in one way is not the response a token failing in another way   *)
(* gets.                                                                   *)
(***************************************************************************)
C24_DecodeFailuresDistinct ==
    \A s \in Slots :
        (/\ reqs[s].pc = "done"
         /\ reqs[s].op \in ProtectedRoutes
         /\ DecodeFailure(reqs[s].access, now) # "none")
        => \A other \in FailingTokens(now) :
               DecodeFailure(other, now) # DecodeFailure(reqs[s].access, now)
               => decode_token(other, now).resp # reqs[s].resp

\* the operations that schedule an e-mail
MailingOps == {"register", "resend_verification", "reset_request"}

(***************************************************************************)
(* C25: e-mail delivery is decoupled from the request.  Register, resend   *)
(* verification and request password reset have answered (201 or 200) and  *)
(* written the token before the delivery runs, and the delivery, whether   *)
(* it succeeds or fails, changes no account: the stored token and its      *)
(* expiry stay as the request wrote them.                                  *)
(***************************************************************************)
C25_DeliveryDecoupled ==
    [][\A s \in Slots :
          /\ (reqs[s].pc = "done" /\ reqs'[s].pc = "task")
             => /\ reqs[s].op \in MailingOps
                /\ reqs[s].resp.status \in {200, 201}
                /\ users' = users
                /\ \E i \in Accounts :
                      /\ users[i].email = reqs[s].email
                      /\ IF reqs[s].task = "reset"
                         THEN users[i].reset_password_token # None
                         ELSE users[i].verification_token # None
          /\ (reqs[s].pc = "task" /\ reqs'[s].pc # "task")
             => /\ users' = users
                /\ bearer' = bearer
                /\ consumed' = consumed
                /\ reqs'[s] = Idle
          /\ (reqs[s].op \in MailingOps /\ reqs[s].pc = "done"
                /\ reqs[s].resp.status \in {200, 201} /\ reqs[s].task # "none")
             => reqs'[s].pc = "task"
      ]_vars

\* the reset request has answered, its token is stored, the mail is not yet out
C25_Witness ==
    \E s \in Slots :
        /\ reqs[s].pc = "task"
        /\ reqs[s].task = "reset"
        /\ reqs[s].resp = Json(200, GenericResetMessage)
        /\ \E i \in Accounts :
              /\ users[i].email = reqs[s].email
              /\ users[i].reset_password_token # None

\* the student accounts whose password is the one given
StudentsWith(email, password) ==
    {i \in Accounts : /\ users[i].email = email
                      /\ users[i].role = STUDENT
                      /\ users[i].hashed_password
                           = hash_password(password, users[i].hashed_password.salt)}

\* the student accounts an unexpired token issued by Login speaks for,
\* stored under the ObjectId that the token's id is turned into
StudentsOf(token) ==
    {i \in Accounts : /\ token # NoAccess
                      /\ now < token.exp
                      /\ users[i]._id = ObjectId(token.id)
                      /\ users[i].email = token.email
                      /\ users[i].role = STUDENT
                      /\ users[i].is_verified
                      /\ users[i].status = ACTIVE}

(***************************************************************************)
(* C26: the scenario of a student, step by step.  Register answers 201;    *)
(* Login with the registered password before verification answers 403;     *)
(* verify-email with the registered token answers 200 with verified true   *)
(* and status active; Login then answers 200 with an access token; GET     *)
(* protected/student with that token answers 200 and GET protected/admin   *)
(* with it answers 403.                                                    *)
(***************************************************************************)
C26_StudentScenario ==
    [][\A s \in Slots :
          /\ (/\ reqs[s].op = "register" /\ reqs[s].pc = "insert"
               /\ reqs'[s] # reqs[s]
               /\ reqs[s].role \in {Unset, STUDENT})
             => /\ reqs'[s].pc = "done"
                /\ reqs'[s].resp.status = 201
                /\ reqs'[s].resp.body.role = STUDENT
                /\ reqs'[s].resp.body.is_verified = FALSE
          /\ (/\ Arrives(s, "login")
               /\ \E i \in StudentsWith(reqs'[s].email, reqs'[s].password) :
                     ~users[i].is_verified)
             => /\ reqs'[s].pc = "done"
                /\ reqs'[s].resp.status = 403
                /\ reqs'[s].resp.access_token = NoAccess
          /\ (/\ Arrives(s, "verify_email")
               /\ \E i \in VerificationHolders(reqs'[s].token) : users[i].role = STUDENT)
             => reqs'[s].pc = "update"
          /\ (/\ reqs[s].op = "verify_email" /\ reqs[s].pc = "update"
               /\ reqs'[s] # reqs[s])
             => reqs'[s].pc = "refetch"
          /\ (/\ reqs[s].op = "verify_email" /\ reqs[s].pc = "refetch"
               /\ reqs'[s] # reqs[s])
             => /\ reqs'[s].pc = "done"
                /\ reqs'[s].resp.status = 200
                /\ reqs'[s].resp.body.is_verified = TRUE
                /\ reqs'[s].resp.body.status = ACTIVE
          /\ (/\ Arrives(s, "login")
               /\ \E i \in StudentsWith(reqs'[s].email, reqs'[s].password) :
                     users[i].is_verified /\ users[i].status = ACTIVE)
             => /\ reqs'[s].pc = "done"
                /\ reqs'[s].resp.status = 200
                /\ reqs'[s].resp.access_token # NoAccess
                /\ reqs'[s].resp.access_token.email = reqs'[s].email
          /\ (/\ Arrives(s, "protected_student")
               /\ reqs'[s].access = bearer
               /\ StudentsOf(bearer) # {})
             => /\ reqs'[s].pc = "done"
                /\ reqs'[s].resp.status = 200
                /\ reqs'[s].resp.body.email = bearer.email
          /\ (/\ Arrives(s, "protected_admin")
               /\ reqs'[s].access = bearer
               /\ StudentsOf(bearer) # {})
             => /\ reqs'[s].pc = "done"
                /\ reqs'[s].resp.status = 403
                /\ reqs'[s].resp.body = NoBody
      ]_vars

\* the end of the scenario: the student, verified with the registered token
\* and logged in, is refused on the admin route
C26_Witness ==
    \E s \in Slots :
        /\ Responded(s, "protected_admin")
        /\ reqs[s].resp.status = 403
        /\ reqs[s].access = bearer
        /\ \E i \in StudentsOf(bearer) :
              /\ users[i].verification_token = None
              /\ \E t \in 1..nextTok : <<"verify_email", t>> \in consumed

(***************************************************************************)
(* C27: the server cannot invalidate a bearer token before its expiry.  A  *)
(* token that passes Resolve Identity passes it after every step that      *)
(* leaves the token unexpired and the account in the store, the step by    *)
(* which reset-password-confirm changes the account's password included.   *)
(***************************************************************************)
C27_NoRevocationBeforeExpiry ==
    [][(/\ bearer # NoAccess
        /\ bearer' = bearer
        /\ now' < bearer.exp
        /\ Len(users') = Len(users)
        /\ get_current_user(bearer, users, now).ok)
       => /\ get_current_user(bearer, users', now').ok
          /\ get_current_user(bearer, users', now').user._id
               = get_current_user(bearer, users, now).user._id
      ]_vars

\* the password was changed by reset-password-confirm and the token, issued
\* before, still resolves to the account
C27_Witness ==
    \E s \in Slots :
        /\ Responded(s, "reset_confirm")
        /\ reqs[s].resp.status = 200
        /\ bearer # NoAccess
        /\ get_current_user(bearer, users, now).ok
        /\ get_current_user(bearer, users, now).user.email = reqs[s].resp.body.email
        /\ get_current_user(bearer, users, now).user.hashed_password
             = hash_password_placeholder(reqs[s].password)

\* the operations that answer with the public account view
ViewOps == {"register", "verify_email", "reset_confirm"} \cup ProtectedRoutes

PublicFields == {"id", "email", "full_name", "role", "status", "is_verified"}
SecretFields == {"hashed_password", "verification_token", "verification_token_expires_at",
                 "reset_password_token", "reset_password_token_expires_at"}

(***************************************************************************)
(* C28: the account view in a response of register, verify-email,          *)
(* reset-password-confirm and the protected routes carries id, email,      *)
(* full_name, role, status and is_verified and nothing else: no response   *)
(* carries the password digest, a verification token, a reset token or a   *)
(* token expiry; no other operation returns an account view.               *)
(***************************************************************************)
C28_PublicViewOnly ==
    \A s \in Slots :
        reqs[s].pc = "done"
        => /\ reqs[s].resp.body # NoBody
              => /\ reqs[s].op \in ViewOps
                 /\ DOMAIN reqs[s].resp.body = PublicFields
                 /\ DOMAIN reqs[s].resp.body \cap SecretFields = {}
           /\ (reqs[s].op \in ViewOps /\ reqs[s].resp.status \in {200, 201})
              => reqs[s].resp.body # NoBody
           /\ DOMAIN reqs[s].resp = {"status", "detail", "body", "access_token"}

\* reset-password-confirm answers with the view of an account that holds
\* a digest and a verification token
C28_Witness ==
    \E s \in Slots :
        /\ Responded(s, "reset_confirm")
        /\ reqs[s].resp.status = 200
        /\ \E i \in Accounts :
              /\ users[i].email = reqs[s].resp.body.email
              /\ users[i].hashed_password = hash_password_placeholder(reqs[s].password)
              /\ users[i].verification_token # None

\* the accounts whose id is the one handed to store
AccountsWithId(user_id) == {i \in Accounts : PyObjectId(users[i]._id) = user_id}

(***************************************************************************)
(* C29: store, for either purpose, returns true exactly when an account    *)
(* with the given id exists at the time of the write, and then that        *)
(* account's token is the given token, its expiry is now + ttl and         *)
(* updated_at is refreshed; it returns false only when no such account     *)
(* exists, and then no account is changed.  (The handler answers 200 when  *)
(* store returns true and 500 when it returns false.)                      *)
(***************************************************************************)
C29_StoreWritesWhenAccountExists ==
    [][\A s \in Slots :
          (reqs[s].pc = "store" /\ reqs'[s].pc = "done")
          => LET holders == AccountsWithId(reqs[s].doc_id)
                 returned == reqs'[s].resp.status = 200
             IN /\ returned <=> holders # {}
                /\ returned
                   => \E i \in holders :
                         /\ users'[i].updated_at = now
                         /\ \A j \in Accounts \ {i} : users'[j] = users[j]
                         /\ IF reqs[s].op = "reset_request"
                            THEN /\ users'[i].reset_password_token = reqs'[s].token
                                 /\ users'[i].reset_password_token_expires_at
                                      = now + PASSWORD_RESET_TOKEN_EXPIRE_MINUTES
                            ELSE /\ users'[i].verification_token = reqs'[s].token
                                 /\ users'[i].verification_token_expires_at
                                      = now + EMAIL_VERIFICATION_TOKEN_EXPIRE_MINUTES
                /\ ~returned => users' = users
      ]_vars

Consumes(s, op, t) ==
    /\ reqs[s].op = op /\ reqs[s].pc = "update"
    /\ reqs'[s] # reqs[s]
    /\ reqs[s].token = t

\* the step by which request s stores a regenerated token (op: the storing
\* operation)
Regenerates(s, op) ==
    /\ reqs[s].op = op /\ reqs[s].pc = "store"
    /\ reqs'[s].pc = "done" /\ reqs'[s].resp.status = 200

C32_FailedConsumeChangesNothing ==
    [][\A s \in Slots :
          (/\ reqs[s].pc # "done"
           /\ reqs'[s].pc = "done"
           /\ reqs'[s].op \in {"verify_email", "reset_confirm"}
           /\ reqs'[s].resp.status # 200)
          => /\ reqs[s].pc = "idle"
             /\ reqs'[s].resp.status = 400
             /\ users' = users
      ]_vars

\* reset-password-confirm with the stored but expired reset token of an
\* unverified account is refused and the account keeps both its tokens
C32_Witness ==
    \E s \in Slots :
        /\ Responded(s, "reset_confirm")
        /\ reqs[s].resp.status = 400
        /\ \E i \in Accounts :
              /\ users[i].reset_password_token = reqs[s].token
              /\ users[i].reset_password_token_expires_at <= now
              /\ users[i].verification_token # None
              /\ ~users[i].is_verified

\* the accounts that hold the token, valid or not, for the one purpose
VerificationTokenOf(token) == {i \in Accounts : users[i].verification_token = token}
ResetTokenOf(token) == {i \in Accounts : users[i].reset_password_token = token}

(***************************************************************************)
(* C33: the two token purposes are independent.  A stored verification     *)
(* token is refused by reset-password-confirm and a stored reset token is  *)
(* refused by verify-email; the write of a successful verify-email leaves  *)
(* every account's reset token, reset expiry and password digest as they   *)
(* were; storing and consuming a reset token leave every account's         *)
(* verification token and its expiry as they were.                         *)
(***************************************************************************)
C33_TokenPurposesIndependent ==
    [][\A s \in Slots :
          /\ (/\ Arrives(s, "reset_confirm")
               /\ VerificationTokenOf(reqs'[s].token) # {})
             => /\ reqs'[s].pc = "done"
                /\ reqs'[s].resp.status = 400
                /\ users' = users
          /\ (/\ Arrives(s, "verify_email")
               /\ ResetTokenOf(reqs'[s].token) # {})
             => /\ reqs'[s].pc = "done"
                /\ reqs'[s].resp.status = 400
                /\ users' = users
          /\ (reqs[s].op = "verify_email" /\ reqs[s].pc = "update" /\ reqs'[s] # reqs[s])
             => \A i \in Accounts :
                   /\ users'[i].reset_password_token = users[i].reset_password_token
                   /\ users'[i].reset_password_token_expires_at
                        = users[i].reset_password_token_expires_at
                   /\ users'[i].hashed_password = users[i].hashed_password
          /\ (/\ reqs[s].op \in {"reset_request", "reset_confirm"}
               /\ reqs'[s] # reqs[s])
             => \A i \in Accounts :
                   /\ users'[i].verification_token = users[i].verification_token
                   /\ users'[i].verification_token_expires_at
                        = users[i].verification_token_expires_at
      ]_vars

\* verify-email has succeeded for an account that holds a reset token, and
\* the reset token is still there
C33_Witness ==
    \E s \in Slots :
        /\ Responded(s, "verify_email")
        /\ reqs[s].resp.status = 200
        /\ \E i \in Accounts :
              /\ users[i].email = reqs[s].resp.body.email
              /\ users[i].is_verified
              /\ users[i].reset_password_token # None
              /\ users[i].reset_password_token_expires_at # None

C35_VerifiedOnlyByOwnValidToken ==
    [][/\ \A i \in Accounts :
             (~users[i].is_verified /\ users'[i].is_verified)
             => \E s \in Slots :
                   /\ reqs[s].op = "verify_email" /\ reqs[s].pc = "update"
                   /\ reqs'[s] # reqs[s]
                   /\ users[i].verification_token = reqs[s].token
                   /\ users[i].verification_token # None
                   /\ users[i].verification_token_expires_at > now
       /\ \A i \in 1..Len(users') : i > Len(users) => ~users'[i].is_verified
      ]_vars

C37_ResetRequestKeepsCredentials ==
    [][/\ \A s \in Slots :
             /\ (reqs[s].op = "reset_request" /\ reqs'[s] # reqs[s])
                => /\ \A i \in Accounts :
                         users'[i].hashed_password = users[i].hashed_password
                   /\ \A e \in Emails, p \in Passwords :
                         login_for_access_token(users', e, p, now')
                           = login_for_access_token(users, e, p, now)
             /\ (Arrives(s, "reset_confirm") /\ reqs'[s].pc = "update")
                => \E i \in ResetHolders(reqs'[s].token) :
                      reqs'[s].doc_id = users[i]._id
       /\ \A i \in Accounts :
             users'[i].hashed_password # users[i].hashed_password
             => \E s \in Slots :
                   /\ reqs[s].op = "reset_confirm" /\ reqs[s].pc = "update"
                   /\ reqs'[s] # reqs[s]
                   /\ reqs[s].doc_id = users[i]._id
                   /\ users'[i].hashed_password
                        = hash_password_placeholder(reqs[s].password)
      ]_vars

\* the reset request has stored its token for a verified, active account,
\* which still logs in with the password it registered with
C37_Witness ==
    \E s \in Slots :
        /\ Responded(s, "reset_request")
        /\ reqs[s].resp.status = 200
        /\ \E i \in Accounts :
              /\ users[i].email = reqs[s].email
              /\ users[i].reset_password_token = reqs[s].token
              /\ users[i].is_verified
              /\ users[i].status = ACTIVE
              /\ \E p \in Passwords :
                    /\ users[i].hashed_password
                         = hash_password(p, users[i].hashed_password.salt)
                    /\ LoginResponse(users[i].email, p).status = 200

=============================================================================
